---- MODULE Spec2Model ----
(***************************************************************************)
(* A model of coca's fixed-capacity binary max-heap (src/binary_heap.rs).  *)
(* The heap is the sequence `a` (the wrapped Vec), read as a complete      *)
(* binary tree with 0-based indices; every public operation is one action. *)
(***************************************************************************)
EXTENDS Integers, Sequences, FiniteSets

\* ---------------------------------------------------------------- bounds
\* Capacity of the backing storage the heap is constructed over.
Cap == 5
\* Elements are the integers 1..MaxVal under their usual order.
MaxVal == 3
\* Longest iterator handed to extend().
MaxExt == 2
\* Number of nested calls the stack has room for.
MaxStack == 4
\* Greatest index the tree-traversal functions are applied to.
MaxIndex == 60

Vals == 1..MaxVal

RECURSIVE SeqsOfLen(_)
SeqsOfLen(n) ==
  IF n = 0 THEN {<<>>}
  ELSE {Append(s, v) : s \in SeqsOfLen(n - 1), v \in Vals}

SeqsUpTo(n) == UNION {SeqsOfLen(k) : k \in 0..n}

VARIABLES
  a,        \* contents of the wrapped Vec, index 0 first
  mode,     \* "heap": a BinaryHeap owns a; "vec": a plain Vec; "gone"; "panicked"
  gs,       \* the PeekMut guard: live?, contents when taken, value last written
  iter,     \* the live iterator: "none", "drain", "drain_sorted", "into_iter_sorted"
  orig,     \* contents when the iterator was created
  yielded,  \* elements returned by next() so far
  log,      \* destruction log of the elements (tests::Droppable)
  pushed,   \* items accepted by try_push while nothing else touched an empty heap
  last,     \* the last completed call: name, contents before, argument, result
  cap,      \* capacity() of the wrapped Vec
  test      \* inputs and results of the test drivers (tests module, pure functions)

vars == <<a, mode, gs, iter, orig, yielded, log, pushed, last, cap, test>>

\* ------------------------------------------------------------- Option/Result
None == [tag |-> "None", v |-> 0]
Some(x) == [tag |-> "Some", v |-> x]
Ok == [tag |-> "Ok", v |-> 0]
Err(x) == [tag |-> "Err", v |-> x]
Unit == [tag |-> "Unit", v |-> 0]

\* ------------------------------------------------------------- slices
\* a[i] for a 0-based index i.
At(s, i) == s[i + 1]

\* An exchange that copies s[j] over s[i] and loses s[i].
swap_copy(s, i, j) == [s EXCEPT ![i + 1] = s[j + 1]]

swap(s, i, j) == [s EXCEPT ![i + 1] = s[j + 1], ![j + 1] = s[i + 1]]

\* ------------------------------------------------------------- Vec (crate::vec)
Vec_is_full(s) == Len(s) >= cap

Vec_try_push(s, item) ==
  IF Vec_is_full(s) THEN [a |-> s, ret |-> Err(item)]
  ELSE [a |-> Append(s, item), ret |-> Ok]

\* Removes the element at index i, moving the last element into its place.
Vec_swap_remove(s, i) ==
  LET n == Len(s)
      moved == [s EXCEPT ![i + 1] = s[n]]
  IN [a |-> SubSeq(moved, 1, n - 1), ret |-> At(s, i)]

Vec_first(s) == IF Len(s) = 0 THEN None ELSE Some(At(s, 0))

Vec_extend(s, xs) == s \o xs

\* ------------------------------------------------------------- tree indices
\* PARENT of the 1-based reference, used on a 0-based index.
parent_one_based(i) == i \div 2

parent(i) == ((i + 1) \div 2) - 1

\* LEFT of the 1-based reference, used on a 0-based index.
left_one_based(i) == 2 * i

left(i) == 2 * (i + 1) - 1

right(i) == 2 * (i + 1)

\* ------------------------------------------------------------- sift-down
\* heapify without the recursive call: one swap, then stop.
heapify_once(s, i) ==
  LET l == left(i)
      r == right(i)
      first == IF l < Len(s) /\ At(s, l) > At(s, i) THEN l ELSE i
      largest == IF r < Len(s) /\ At(s, r) > At(s, first) THEN r ELSE first
  IN IF largest # i THEN swap(s, i, largest) ELSE s

\* heapify whose right child also wins a tie with the current candidate.
RECURSIVE heapify_right_ties(_, _)
heapify_right_ties(s, i) ==
  LET l == left(i)
      r == right(i)
      first == IF l < Len(s) /\ At(s, l) > At(s, i) THEN l ELSE i
      largest == IF r < Len(s) /\ At(s, r) >= At(s, first) THEN r ELSE first
  IN IF largest # i THEN heapify_right_ties(swap(s, i, largest), largest) ELSE s

RECURSIVE heapify(_, _)
heapify(s, i) ==
  LET l == left(i)
      r == right(i)
      first == IF l < Len(s) /\ At(s, l) > At(s, i) THEN l ELSE i
      largest == IF r < Len(s) /\ At(s, r) > At(s, first) THEN r ELSE first
  IN IF largest # i THEN heapify(swap(s, i, largest), largest) ELSE s

\* The indices heapify is called with, outermost call first.
RECURSIVE heapify_calls(_, _)
heapify_calls(s, i) ==
  LET l == left(i)
      r == right(i)
      first == IF l < Len(s) /\ At(s, l) > At(s, i) THEN l ELSE i
      largest == IF r < Len(s) /\ At(s, r) > At(s, first) THEN r ELSE first
  IN IF largest # i THEN <<i>> \o heapify_calls(swap(s, i, largest), largest)
     ELSE <<i>>

\* The value a slice access a[j] yields; an access outside the slice has no
\* value (it panics), 0 stands for it and compares below every element.
Rd(s, j) == IF 0 <= j /\ j < Len(s) THEN At(s, j) ELSE 0

\* heapify whose bound checks are l <= a.len() and r <= a.len().
RECURSIVE heapify_reads_le(_, _)
heapify_reads_le(s, i) ==
  LET l == left(i)
      r == right(i)
      first == IF l <= Len(s) /\ Rd(s, l) > Rd(s, i) THEN l ELSE i
      largest == IF r <= Len(s) /\ Rd(s, r) > Rd(s, first) THEN r ELSE first
  IN (IF l <= Len(s) THEN {l, i} ELSE {})
       \cup (IF r <= Len(s) THEN {r, first} ELSE {})
       \cup (IF largest # i
             THEN {i, largest} \cup heapify_reads_le(swap(s, i, largest), largest)
             ELSE {})

\* The indices at which heapify and its nested calls access the slice:
\* a[l] and a[i] after l < a.len(), a[r] and a[largest] after r < a.len(),
\* and a.swap(i, largest).
RECURSIVE heapify_reads(_, _)
heapify_reads(s, i) ==
  LET l == left(i)
      r == right(i)
      first == IF l < Len(s) /\ Rd(s, l) > Rd(s, i) THEN l ELSE i
      largest == IF r < Len(s) /\ Rd(s, r) > Rd(s, first) THEN r ELSE first
  IN (IF l < Len(s) THEN {l, i} ELSE {})
       \cup (IF r < Len(s) THEN {r, first} ELSE {})
       \cup (IF largest # i
             THEN {i, largest} \cup heapify_reads(swap(s, i, largest), largest)
             ELSE {})

\* The accesses of the build loop, entered with i = n - 1.
RECURSIVE build_reads(_, _)
build_reads(s, i) ==
  IF i < 0 THEN {}
  ELSE heapify_reads(s, i) \cup build_reads(heapify(s, i), i - 1)

\* for i in (0..n).rev() { heapify(a, i) }, entered with i = n - 1.
RECURSIVE build_loop(_, _)
build_loop(s, i) ==
  IF i < 0 THEN s ELSE build_loop(heapify(s, i), i - 1)

\* The build loop without .rev(): heapify(a, 0), heapify(a, 1), ...
RECURSIVE build_loop_fwd(_, _, _)
build_loop_fwd(s, i, n) ==
  IF i >= n THEN s ELSE build_loop_fwd(heapify(s, i), i + 1, n)

FromVec_fwd(s) == build_loop_fwd(s, 0, Len(s) \div 2)

\* From<Vec<E, B, I>> for BinaryHeap
FromVec(s) == build_loop(s, (Len(s) \div 2) - 1)

\* ------------------------------------------------------------- sift-up
\* The sift-up loop with `if` for `while`: at most one swap.
sift_up_once(s, i) ==
  IF i > 0 /\ At(s, parent(i)) < At(s, i) THEN swap(s, i, parent(i)) ELSE s

\* while i > 0 && a[parent(i)] < a[i] { a.swap(i, parent(i)); i = parent(i); }
RECURSIVE sift_up(_, _)
sift_up(s, i) ==
  IF i > 0 /\ At(s, parent(i)) < At(s, i)
  THEN sift_up(swap(s, i, parent(i)), parent(i))
  ELSE s

\* The number of a.swap(i, parent(i)) the sift-up loop executes.
RECURSIVE sift_up_swaps(_, _)
sift_up_swaps(s, i) ==
  IF i > 0 /\ At(s, parent(i)) < At(s, i)
  THEN 1 + sift_up_swaps(swap(s, i, parent(i)), parent(i))
  ELSE 0

\* The arguments parent is evaluated with by the sift-up loop: the condition
\* evaluates parent(i) only after i > 0, the body for the same i.
RECURSIVE sift_up_parents(_, _)
sift_up_parents(s, i) ==
  IF i > 0
  THEN {i} \cup (IF At(s, parent(i)) < At(s, i)
                 THEN sift_up_parents(swap(s, i, parent(i)), parent(i))
                 ELSE {})
  ELSE {}

\* try_push that appends without asking the Vec whether it is full.
try_push_unchecked(s, item) ==
  [a |-> sift_up(Append(s, item), Len(s)), ret |-> Ok]

\* try_push that drops the error of a full Vec.
try_push_swallow(s, item) ==
  LET r == Vec_try_push(s, item)
  IN IF r.ret.tag = "Err" THEN [a |-> r.a, ret |-> Ok]
     ELSE [a |-> sift_up(r.a, Len(r.a) - 1), ret |-> Ok]

try_push(s, item) ==
  LET r == Vec_try_push(s, item)
  IN IF r.ret.tag = "Err" THEN r
     ELSE [a |-> sift_up(r.a, Len(r.a) - 1), ret |-> Ok]

\* push that ignores the result of try_push.
push_ignore(s, item) == [a |-> try_push(s, item).a, panic |-> FALSE]

\* push: assert_failed() panics when try_push returns Err.
push(s, item) ==
  LET r == try_push(s, item)
  IN [a |-> r.a, panic |-> r.ret.tag = "Err"]

\* peek that reads the last slot of the Vec.
peek_last(s) == IF Len(s) = 0 THEN None ELSE Some(s[Len(s)])

\* capacity(), len(), is_empty(), is_full() forward to the Vec.
capacity == cap

len(s) == Len(s)

is_empty(s) == Len(s) = 0

is_full(s) == Vec_is_full(s)

\* ------------------------------------------------------------- extraction
peek(s) == Vec_first(s)

\* pop that takes the last element of the Vec instead of the root.
pop_last(s) ==
  IF Len(s) = 0 THEN [a |-> s, ret |-> None, sifts |-> 0]
  ELSE [a |-> SubSeq(s, 1, Len(s) - 1), ret |-> Some(s[Len(s)]), sifts |-> 0]

pop(s) ==
  IF Len(s) = 0 THEN [a |-> s, ret |-> None, sifts |-> 0]
  ELSE LET r == Vec_swap_remove(s, 0)
       IN [a |-> heapify(r.a, 0), ret |-> Some(r.ret), sifts |-> 1]

\* ------------------------------------------------------------- PeekMut
\* DerefMut for PeekMut: the caller stores v through the reference to a[0].
deref_mut(s, v) == [s EXCEPT ![1] = v]

\* A guard whose drop does nothing.
PeekMut_drop_noop(s) == [a |-> s, sifts |-> 0]

\* Drop for PeekMut
PeekMut_drop(s) == [a |-> heapify(s, 0), sifts |-> 1]

\* PeekMut::pop without mem::forget: the guard's drop runs after the pop.
PeekMut_pop_noforget(s) ==
  LET r == pop(s)
  IN [a |-> heapify(r.a, 0), ret |-> r.ret.v, sifts |-> r.sifts + 1]

\* PeekMut::pop: the heap's pop, then mem::forget(this), so drop never runs.
PeekMut_pop(s) ==
  LET r == pop(s)
  IN [a |-> r.a, ret |-> r.ret.v, sifts |-> r.sifts]

\* A forgotten guard whose drop runs all the same.
PeekMut_forget_drop(s) == [a |-> heapify(s, 0), sifts |-> 1]

\* core::mem::forget(guard), as PeekMut::pop does with `this`: Drop for
\* PeekMut never runs, so no heapify.
PeekMut_forget(s) == [a |-> s, sifts |-> 0]

\* ------------------------------------------------------------- conversions
\* The sort loop with heapify over the whole slice instead of a[..i].
RECURSIVE sort_loop_whole(_, _)
sort_loop_whole(s, i) ==
  IF i < 1 THEN s
  ELSE sort_loop_whole(heapify(swap(s, 0, i), 0), i - 1)

\* for i in (1..a.len()).rev() { a.swap(0, i); heapify(&mut a[..i], 0); }
RECURSIVE sort_loop(_, _)
sort_loop(s, i) ==
  IF i < 1 THEN s
  ELSE LET sw == swap(s, 0, i)
           front == heapify(SubSeq(sw, 1, i), 0)
       IN sort_loop(front \o SubSeq(sw, i + 1, Len(sw)), i - 1)

\* One iteration of the sort loop with heapify over the whole slice.
sort_iteration_whole(s, i) == heapify(swap(s, 0, i), 0)

\* One iteration of the sort loop: a.swap(0, i); heapify(&mut a[..i], 0);
sort_iteration(s, i) ==
  LET sw == swap(s, 0, i)
      front == heapify(SubSeq(sw, 1, i), 0)
  IN front \o SubSeq(sw, i + 1, Len(sw))

\* The accesses of the sort loop that fall outside the slice they are made
\* on: a.swap(0, i) on a, heapify on a[..i].
RECURSIVE sort_faults(_, _)
sort_faults(s, i) ==
  IF i < 1 THEN {}
  ELSE LET sw == swap(s, 0, i)
           front == heapify(SubSeq(sw, 1, i), 0)
       IN {j \in {0, i} : j >= Len(s)}
            \cup {j \in heapify_reads(SubSeq(sw, 1, i), 0) : j >= i}
            \cup sort_faults(front \o SubSeq(sw, i + 1, Len(sw)), i - 1)

into_sorted_vec(s) == sort_loop(s, Len(s) - 1)

\* extend that pushes the new elements one at a time (sift-up per element).
RECURSIVE extend_by_push(_, _)
extend_by_push(s, xs) ==
  IF xs = <<>> THEN s
  ELSE extend_by_push(try_push(s, Head(xs)).a, Tail(xs))

\* Extend for BinaryHeap
extend(s, xs) ==
  LET all == Vec_extend(s, xs)
  IN build_loop(all, (Len(all) \div 2) - 1)

\* ------------------------------------------------------------- sorted iterators
\* next() that hands out the Vec's first element without restoring the heap.
DrainSorted_next_storage(s) ==
  IF Len(s) = 0 THEN [a |-> s, ret |-> None, pops |-> 1]
  ELSE [a |-> Tail(s), ret |-> Some(Head(s)), pops |-> 1]

DrainSorted_next(s) ==
  LET r == pop(s)
  IN [a |-> r.a, ret |-> r.ret, pops |-> 1]

\* A call that does not return: the stack is exhausted.
Diverges == [tag |-> "Diverges", v |-> 0]

Hint(lo, hi) == [tag |-> "Hint", v |-> <<lo, hi>>]

\* DrainSorted has no len of its own and ExactSizeIterator is implemented
\* with an empty body, so self.len() in size_hint is the trait's default
\* len, which calls self.size_hint(). depth counts the frames in use.
RECURSIVE DrainSorted_size_hint(_, _)
RECURSIVE DrainSorted_len(_, _)
DrainSorted_len(s, depth) ==
  IF depth >= MaxStack THEN Diverges
  ELSE LET h == DrainSorted_size_hint(s, depth + 1)
       IN IF h.tag = "Diverges" THEN Diverges
          ELSE [tag |-> "Len", v |-> h.v[1]]

DrainSorted_size_hint(s, depth) ==
  IF depth >= MaxStack THEN Diverges
  ELSE LET size == DrainSorted_len(s, depth + 1)
       IN IF size.tag = "Diverges" THEN Diverges
          ELSE Hint(size.v, Some(size.v))

\* A drop that leaves the remaining elements in the heap.
DrainSorted_drop_leave(s, lg) == [a |-> s, log |-> lg, pops |-> 0]

\* A drop that discards the storage front to back.
DrainSorted_drop_storage(s, lg) == [a |-> <<>>, log |-> lg \o s, pops |-> 0]

\* Drop for DrainSorted: self.for_each(drop) calls next() until it returns None
\* and destroys every element it gets, in that order.
RECURSIVE DrainSorted_drop(_, _)
DrainSorted_drop(s, lg) ==
  LET r == DrainSorted_next(s)
  IN IF r.ret.tag = "None" THEN [a |-> r.a, log |-> lg, pops |-> r.pops]
     ELSE LET rest == DrainSorted_drop(r.a, Append(lg, r.ret.v))
          IN [rest EXCEPT !.pops = @ + r.pops]

\* next() that pops twice and returns the second element.
IntoIterSorted_next_twice(s) ==
  LET r == pop(pop(s).a)
  IN [a |-> r.a, ret |-> r.ret, pops |-> 2]

IntoIterSorted_next(s) ==
  LET r == pop(s)
  IN [a |-> r.a, ret |-> r.ret, pops |-> 1]

IntoIterSorted_size_hint(s) ==
  LET size == len(s)
  IN Hint(size, Some(size))

RECURSIVE IntoIterSorted_drop(_, _)
IntoIterSorted_drop(s, lg) ==
  LET r == IntoIterSorted_next(s)
  IN IF r.ret.tag = "None" THEN [a |-> r.a, log |-> lg, pops |-> r.pops]
     ELSE LET rest == IntoIterSorted_drop(r.a, Append(lg, r.ret.v))
          IN [rest EXCEPT !.pops = @ + r.pops]

\* ------------------------------------------------------------- bookkeeping
\* gs.orig, gs.w, orig, yielded, log, pushed and last record what the calls did;
\* no operation reads them. They are cleared by the next call that does not
\* belong to the same guard or iterator.
NoGuard == [live |-> FALSE, orig |-> <<>>, w |-> <<>>]

NoTest == [kind |-> "none"]

Call(op, pre, arg, ret, sifts, pops) ==
  [op |-> op, pre |-> pre, arg |-> arg, ret |-> ret, sifts |-> sifts, pops |-> pops]

\* No guard and no iterator borrows the heap.
Idle == mode = "heap" /\ ~gs.live /\ iter = "none"

NoIter == iter' = "none" /\ orig' = <<>> /\ yielded' = <<>> /\ log' = <<>>

\* `pushed` restarts whenever the heap is empty again.
Restart(s) == [only |-> (s = <<>>), s |-> <<>>]

\* ------------------------------------------------------------- initial states
\* An empty heap over raw storage (From<B>), or From<Vec> over any vector.
Init ==
  \E s \in SeqsUpTo(Cap) :
    /\ a = FromVec(s)
    /\ mode = "heap"
    /\ gs = NoGuard
    /\ iter = "none"
    /\ orig = <<>>
    /\ yielded = <<>>
    /\ log = <<>>
    /\ pushed = Restart(s)
    /\ last = Call("from", s, <<>>, Unit, 0, 0)
    /\ cap = Cap
    /\ test = NoTest

\* ------------------------------------------------------------- actions
TryPush(item) ==
  /\ Idle
  /\ LET r == try_push(a, item)
     IN /\ a' = r.a
        /\ last' = Call("try_push", a, <<item>>, r.ret, 0, 0)
        /\ pushed' = IF r.ret.tag = "Err" THEN pushed
                     ELSE IF pushed.only THEN [pushed EXCEPT !.s = Append(@, item)]
                     ELSE Restart(r.a)
  /\ gs' = NoGuard
  /\ NoIter
  /\ UNCHANGED mode
  /\ UNCHANGED <<cap, test>>

\* push panics when try_push fails.
Push(item) ==
  /\ Idle
  /\ LET r == push(a, item)
     IN /\ a' = r.a
        /\ mode' = IF r.panic THEN "panicked" ELSE "heap"
        /\ last' = Call("push", a, <<item>>, Unit, 0, 0)
        /\ pushed' = Restart(r.a)
  /\ gs' = NoGuard
  /\ NoIter
  /\ UNCHANGED <<cap, test>>

Pop ==
  /\ Idle
  /\ LET r == pop(a)
     IN /\ a' = r.a
        /\ last' = Call("pop", a, <<>>, r.ret, r.sifts, 1)
        /\ pushed' = Restart(r.a)
  /\ gs' = NoGuard
  /\ NoIter
  /\ UNCHANGED mode
  /\ UNCHANGED <<cap, test>>

Peek ==
  /\ Idle
  /\ last' = Call("peek", a, <<>>, peek(a), 0, 0)
  /\ gs' = NoGuard
  /\ NoIter
  /\ UNCHANGED <<a, mode, pushed>>
  /\ UNCHANGED <<cap, test>>

Clear ==
  /\ Idle
  /\ a' = <<>>
  /\ last' = Call("clear", a, <<>>, Unit, 0, 0)
  /\ pushed' = Restart(<<>>)
  /\ gs' = NoGuard
  /\ NoIter
  /\ UNCHANGED mode
  /\ UNCHANGED <<cap, test>>

Extend(xs) ==
  /\ Idle
  /\ Len(a) + Len(xs) <= cap
  /\ a' = extend(a, xs)
  /\ last' = Call("extend", a, xs, Unit, 0, 0)
  /\ pushed' = Restart(a')
  /\ gs' = NoGuard
  /\ NoIter
  /\ UNCHANGED mode
  /\ UNCHANGED <<cap, test>>

\* peek_mut: None on an empty heap, else a guard borrowing the heap.
PeekMut ==
  /\ Idle
  /\ gs' = IF Len(a) = 0 THEN NoGuard ELSE [live |-> TRUE, orig |-> a, w |-> <<>>]
  /\ last' = Call("peek_mut", a, <<>>, IF Len(a) = 0 THEN None ELSE Unit, 0, 0)
  /\ NoIter
  /\ UNCHANGED <<a, mode, pushed>>
  /\ UNCHANGED <<cap, test>>

\* *guard = v
DerefMut(v) ==
  /\ gs.live
  /\ a' = deref_mut(a, v)
  /\ gs' = [gs EXCEPT !.w = <<v>>]
  /\ last' = Call("deref_mut", a, <<v>>, Unit, 0, 0)
  /\ pushed' = Restart(a')
  /\ UNCHANGED <<mode, iter, orig, yielded, log>>
  /\ UNCHANGED <<cap, test>>

\* The guard goes out of scope.
PeekMutDrop ==
  /\ gs.live
  /\ LET r == PeekMut_drop(a)
     IN /\ a' = r.a
        /\ last' = Call("guard_drop", a, gs.w, Unit, r.sifts, 0)
  /\ gs' = [gs EXCEPT !.live = FALSE]
  /\ pushed' = Restart(a')
  /\ UNCHANGED <<mode, iter, orig, yielded, log>>
  /\ UNCHANGED <<cap, test>>

\* PeekMut::pop(guard)
PeekMutPop ==
  /\ gs.live
  /\ LET r == PeekMut_pop(a)
     IN /\ a' = r.a
        /\ last' = Call("guard_pop", a, gs.w, Some(r.ret), r.sifts, 1)
  /\ gs' = [gs EXCEPT !.live = FALSE]
  /\ pushed' = Restart(a')
  /\ UNCHANGED <<mode, iter, orig, yielded, log>>
  /\ UNCHANGED <<cap, test>>

\* drain(): Vec::drain(..) hands out the stored elements front to back.
Drain ==
  /\ Idle
  /\ iter' = "drain"
  /\ orig' = a
  /\ yielded' = <<>>
  /\ log' = <<>>
  /\ gs' = NoGuard
  /\ last' = Call("drain", a, <<>>, Unit, 0, 0)
  /\ pushed' = Restart(a)
  /\ UNCHANGED <<a, mode>>
  /\ UNCHANGED <<cap, test>>

DrainNext ==
  /\ iter = "drain"
  /\ IF Len(a) = 0
     THEN /\ last' = Call("drain_next", a, <<>>, None, 0, 0)
          /\ UNCHANGED <<a, yielded, log>>
     ELSE /\ a' = Tail(a)
          /\ yielded' = Append(yielded, Head(a))
          /\ log' = Append(log, Head(a))
          /\ last' = Call("drain_next", a, <<>>, Some(Head(a)), 0, 0)
  /\ UNCHANGED <<mode, gs, iter, orig, pushed>>
  /\ UNCHANGED <<cap, test>>

DrainDrop ==
  /\ iter = "drain"
  /\ a' = <<>>
  /\ log' = log \o a
  /\ iter' = "none"
  /\ last' = Call("drain_drop", a, <<>>, Unit, 0, 0)
  /\ pushed' = Restart(<<>>)
  /\ UNCHANGED <<mode, gs, orig, yielded>>
  /\ UNCHANGED <<cap, test>>

DrainSorted ==
  /\ Idle
  /\ iter' = "drain_sorted"
  /\ orig' = a
  /\ yielded' = <<>>
  /\ log' = <<>>
  /\ gs' = NoGuard
  /\ last' = Call("drain_sorted", a, <<>>, Unit, 0, 0)
  /\ pushed' = Restart(a)
  /\ UNCHANGED <<a, mode>>
  /\ UNCHANGED <<cap, test>>

\* next(); the caller destroys the element as soon as it has it.
DrainSortedNext ==
  /\ iter = "drain_sorted"
  /\ LET r == DrainSorted_next(a)
     IN /\ a' = r.a
        /\ yielded' = IF r.ret.tag = "Some" THEN Append(yielded, r.ret.v) ELSE yielded
        /\ log' = IF r.ret.tag = "Some" THEN Append(log, r.ret.v) ELSE log
        /\ last' = Call("drain_sorted_next", a, <<>>, r.ret, 0, r.pops)
  /\ UNCHANGED <<mode, gs, iter, orig, pushed>>
  /\ UNCHANGED <<cap, test>>

DrainSortedSizeHint ==
  /\ iter = "drain_sorted"
  /\ LET r == DrainSorted_size_hint(a, 0)
     IN /\ last' = Call("drain_sorted_size_hint", a, <<>>, r, 0, 0)
        /\ mode' = IF r.tag = "Diverges" THEN "aborted" ELSE mode
        /\ iter' = IF r.tag = "Diverges" THEN "none" ELSE iter
  /\ UNCHANGED <<a, gs, orig, yielded, log, pushed>>
  /\ UNCHANGED <<cap, test>>

DrainSortedDrop ==
  /\ iter = "drain_sorted"
  /\ LET r == DrainSorted_drop(a, log)
     IN /\ a' = r.a
        /\ log' = r.log
        /\ last' = Call("drain_sorted_drop", a, <<>>, Unit, 0, r.pops)
  /\ iter' = "none"
  /\ pushed' = Restart(a')
  /\ UNCHANGED <<mode, gs, orig, yielded>>
  /\ UNCHANGED <<cap, test>>

\* into_iter_sorted(self): the iterator owns the heap.
IntoIterSorted ==
  /\ Idle
  /\ iter' = "into_iter_sorted"
  /\ orig' = a
  /\ yielded' = <<>>
  /\ log' = <<>>
  /\ gs' = NoGuard
  /\ last' = Call("into_iter_sorted", a, <<>>, Unit, 0, 0)
  /\ pushed' = Restart(a)
  /\ UNCHANGED <<a, mode>>
  /\ UNCHANGED <<cap, test>>

IntoIterSortedNext ==
  /\ iter = "into_iter_sorted"
  /\ LET r == IntoIterSorted_next(a)
     IN /\ a' = r.a
        /\ yielded' = IF r.ret.tag = "Some" THEN Append(yielded, r.ret.v) ELSE yielded
        /\ log' = IF r.ret.tag = "Some" THEN Append(log, r.ret.v) ELSE log
        /\ last' = Call("into_iter_sorted_next", a, <<>>, r.ret, 0, r.pops)
  /\ UNCHANGED <<mode, gs, iter, orig, pushed>>
  /\ UNCHANGED <<cap, test>>

IntoIterSortedSizeHint ==
  /\ iter = "into_iter_sorted"
  /\ last' = Call("into_iter_sorted_size_hint", a, <<>>, IntoIterSorted_size_hint(a), 0, 0)
  /\ UNCHANGED <<a, mode, gs, iter, orig, yielded, log, pushed>>
  /\ UNCHANGED <<cap, test>>

\* The heap dies with its iterator.
IntoIterSortedDrop ==
  /\ iter = "into_iter_sorted"
  /\ LET r == IntoIterSorted_drop(a, log)
     IN /\ a' = r.a
        /\ log' = r.log
        /\ last' = Call("into_iter_sorted_drop", a, <<>>, Unit, 0, r.pops)
  /\ iter' = "none"
  /\ mode' = "gone"
  /\ UNCHANGED <<gs, orig, yielded, pushed>>
  /\ UNCHANGED <<cap, test>>

\* into_sorted_vec(self): what is left is a plain Vec.
IntoSortedVec ==
  /\ Idle
  /\ a' = into_sorted_vec(a)
  /\ mode' = "vec"
  /\ last' = Call("into_sorted_vec", a, <<>>, Unit, 0, 0)
  /\ pushed' = Restart(a)
  /\ gs' = NoGuard
  /\ NoIter
  /\ UNCHANGED <<cap, test>>

\* BinaryHeap::from(vec) on the Vec a heap was turned into.
From ==
  /\ mode = "vec"
  /\ a' = FromVec(a)
  /\ mode' = "heap"
  /\ last' = Call("from", a, <<>>, Unit, 0, 0)
  /\ pushed' = Restart(a)
  /\ gs' = NoGuard
  /\ NoIter
  /\ UNCHANGED <<cap, test>>

Next ==
  \/ \E item \in Vals : TryPush(item)
  \/ \E item \in Vals : Push(item)
  \/ Pop
  \/ Peek
  \/ Clear
  \/ \E xs \in SeqsUpTo(MaxExt) : Extend(xs)
  \/ PeekMut
  \/ \E v \in Vals : DerefMut(v)
  \/ PeekMutDrop
  \/ PeekMutPop
  \/ Drain
  \/ DrainNext
  \/ DrainDrop
  \/ DrainSorted
  \/ DrainSortedNext
  \/ DrainSortedSizeHint
  \/ DrainSortedDrop
  \/ IntoIterSorted
  \/ IntoIterSortedNext
  \/ IntoIterSortedSizeHint
  \/ IntoIterSortedDrop
  \/ IntoSortedVec
  \/ From

Spec == Init /\ [][Next]_vars

\* ------------------------------------------------------------- a leaked guard
\* The caller leaks the guard: the borrow ends, the destructor does not run.
PeekMutLeak ==
  /\ gs.live
  /\ LET r == PeekMut_forget(a)
     IN /\ a' = r.a
        /\ last' = Call("guard_leak", a, gs.w, Unit, r.sifts, 0)
  /\ gs' = [gs EXCEPT !.live = FALSE]
  /\ pushed' = Restart(a')
  /\ test' = [kind |-> "leaked"]
  /\ UNCHANGED <<mode, iter, orig, yielded, log, cap>>

\* peek_mut, writes through the guard, a leak, and peek, pop and push after it.
NextLeak ==
  \/ PeekMut
  \/ \E v \in Vals : DerefMut(v)
  \/ PeekMutLeak
  \/ Peek
  \/ Pop
  \/ \E item \in Vals : Push(item)

SpecLeak == Init /\ [][NextLeak]_vars

\* ------------------------------------------------------------- tests::push_and_pop_randomized_inputs
\* The driver fills the heap to its capacity with push, then repeats
\* x = pop().unwrap(); assert; prev = x; newest = random; push(newest).
\* prev starts at the greatest value of the element type.
InitRounds ==
  /\ a = <<>>
  /\ mode = "heap"
  /\ gs = NoGuard
  /\ iter = "none"
  /\ orig = <<>>
  /\ yielded = <<>>
  /\ log = <<>>
  /\ pushed = Restart(<<>>)
  /\ last = Call("from", <<>>, <<>>, Unit, 0, 0)
  /\ cap = Cap
  /\ test = [kind |-> "rounds", phase |-> "fill", prev |-> MaxVal, newest |-> 0,
             x |-> 0, cmp |-> MaxVal]

\* for _ in 0..32 { newest = rng.next_u32(); heap.push(newest); }
RoundFill(v) ==
  /\ test.kind = "rounds" /\ test.phase = "fill" /\ mode = "heap"
  /\ LET r == push(a, v)
     IN /\ a' = r.a
        /\ mode' = IF r.panic THEN "panicked" ELSE "heap"
        /\ test' = [test EXCEPT !.newest = v,
                                !.phase = IF Len(r.a) = cap THEN "pop" ELSE "fill"]
  /\ UNCHANGED <<gs, iter, orig, yielded, log, pushed, last, cap>>

\* let x = heap.pop().unwrap(); assert!(x <= prev || x == newest); prev = x;
RoundPop ==
  /\ test.kind = "rounds" /\ test.phase = "pop" /\ mode = "heap"
  /\ LET r == pop(a)
     IN /\ a' = r.a
        /\ mode' = IF r.ret.tag = "None" THEN "panicked" ELSE "heap"
        /\ test' = IF r.ret.tag = "None" THEN test
                   ELSE [test EXCEPT !.x = r.ret.v, !.cmp = test.prev,
                                     !.prev = r.ret.v, !.phase = "push"]
  /\ UNCHANGED <<gs, iter, orig, yielded, log, pushed, last, cap>>

\* newest = rng.next_u32(); heap.push(newest);
RoundPush(v) ==
  /\ test.kind = "rounds" /\ test.phase = "push" /\ mode = "heap"
  /\ LET r == push(a, v)
     IN /\ a' = r.a
        /\ mode' = IF r.panic THEN "panicked" ELSE "heap"
        /\ test' = [test EXCEPT !.newest = v, !.phase = "pop"]
  /\ UNCHANGED <<gs, iter, orig, yielded, log, pushed, last, cap>>

NextRounds ==
  \/ \E v \in Vals : RoundFill(v)
  \/ RoundPop
  \/ \E v \in Vals : RoundPush(v)

SpecRounds == InitRounds /\ [][NextRounds]_vars

\* ------------------------------------------------------------- tests::tree_traversal_utilities
\* The test applies left, right and parent to an index, its children and its
\* grandchildren. parent is applied to i itself only when i > 0.
InitTree ==
  /\ a = <<>>
  /\ mode = "heap"
  /\ gs = NoGuard
  /\ iter = "none"
  /\ orig = <<>>
  /\ yielded = <<>>
  /\ log = <<>>
  /\ pushed = Restart(<<>>)
  /\ last = Call("from", <<>>, <<>>, Unit, 0, 0)
  /\ cap = Cap
  /\ \E i \in 0..MaxIndex : test = [kind |-> "tree", i |-> i, done |-> FALSE]

Traverse ==
  /\ test.kind = "tree" /\ ~test.done
  /\ LET i == test.i
         l == left(i)
         r == right(i)
     IN test' = [kind |-> "tree", i |-> i, done |-> TRUE,
                 l |-> l, r |-> r,
                 p |-> IF i > 0 THEN parent(i) ELSE 0,
                 pl |-> parent(l), pr |-> parent(r),
                 ll |-> left(l), lr |-> right(l), rl |-> left(r), rr |-> right(r),
                 ppll |-> parent(parent(left(l))), pplr |-> parent(parent(right(l))),
                 pprl |-> parent(parent(left(r))), pprr |-> parent(parent(right(r)))]
  /\ UNCHANGED <<a, mode, gs, iter, orig, yielded, log, pushed, last, cap>>

SpecTree == InitTree /\ [][Traverse]_vars

\* ------------------------------------------------------------- heapify and the sift-up loop
\* heapify applied to any slice and any index inside it (or to the empty
\* slice with index 0), and the sift-up loop of try_push applied to a heap
\* with one element appended.
InitSift ==
  /\ a = <<>>
  /\ mode = "heap"
  /\ gs = NoGuard
  /\ iter = "none"
  /\ orig = <<>>
  /\ yielded = <<>>
  /\ log = <<>>
  /\ pushed = Restart(<<>>)
  /\ last = Call("from", <<>>, <<>>, Unit, 0, 0)
  /\ cap = Cap
  /\ \/ \E s \in SeqsUpTo(Cap) : \E i \in 0..Cap :
          /\ i < Len(s) \/ (s = <<>> /\ i = 0)
          /\ test = [kind |-> "heapify", s |-> s, i |-> i, done |-> FALSE,
                     out |-> s, calls |-> <<>>, swaps |-> 0]
     \/ \E h \in SeqsUpTo(Cap - 1) : \E v \in Vals :
          test = [kind |-> "sift_up", s |-> Append(FromVec(h), v), i |-> Len(h),
                  done |-> FALSE, out |-> Append(FromVec(h), v), calls |-> <<>>,
                  swaps |-> 0]

HeapifyCall ==
  /\ test.kind = "heapify" /\ ~test.done
  /\ test' = [test EXCEPT !.done = TRUE,
                          !.out = heapify(test.s, test.i),
                          !.calls = heapify_calls(test.s, test.i)]
  /\ UNCHANGED <<a, mode, gs, iter, orig, yielded, log, pushed, last, cap>>

SiftUpLoop ==
  /\ test.kind = "sift_up" /\ ~test.done
  /\ test' = [test EXCEPT !.done = TRUE,
                          !.out = sift_up(test.s, test.i),
                          !.swaps = sift_up_swaps(test.s, test.i)]
  /\ UNCHANGED <<a, mode, gs, iter, orig, yielded, log, pushed, last, cap>>

NextSift == HeapifyCall \/ SiftUpLoop

SpecSift == InitSift /\ [][NextSift]_vars

\* ------------------------------------------------------------- the sort loop of into_sorted_vec
\* into_sorted_vec on any heap, one loop iteration per step. test.i is the
\* index of the last iteration done (n before the first), test.prev the
\* array before that iteration.
InitSort ==
  /\ \E s \in SeqsUpTo(Cap) :
       /\ a = FromVec(s)
       /\ test = [kind |-> "sort", start |-> FromVec(s), n |-> Len(s), i |-> Len(s),
                  iters |-> 0, prev |-> FromVec(s)]
  /\ mode = "vec"
  /\ gs = NoGuard
  /\ iter = "none"
  /\ orig = <<>>
  /\ yielded = <<>>
  /\ log = <<>>
  /\ pushed = Restart(<<>>)
  /\ last = Call("into_sorted_vec", a, <<>>, Unit, 0, 0)
  /\ cap = Cap

SortIteration ==
  /\ test.kind = "sort"
  /\ test.i - 1 >= 1
  /\ a' = sort_iteration(a, test.i - 1)
  /\ test' = [test EXCEPT !.i = @ - 1, !.iters = @ + 1, !.prev = a]
  /\ UNCHANGED <<mode, gs, iter, orig, yielded, log, pushed, last, cap>>

SpecSort == InitSort /\ [][SortIteration]_vars

\* ------------------------------------------------------------- vocabulary
\* The max-heap property, with the parent of i at (i - 1) / 2.
\* floor(log2(n)) for n >= 1.
RECURSIVE Log2(_)
Log2(n) == IF n <= 1 THEN 0 ELSE 1 + Log2(n \div 2)

IsHeap(s) == \A i \in 1..(Len(s) - 1) : At(s, (i - 1) \div 2) >= At(s, i)

IsAscending(s) == \A i \in 1..(Len(s) - 1) : s[i] <= s[i + 1]

IsDescending(s) == \A i \in 1..(Len(s) - 1) : s[i] >= s[i + 1]

IsStrictlyDescending(s) == \A i \in 1..(Len(s) - 1) : s[i] > s[i + 1]

Count(s, v) == Cardinality({i \in 1..Len(s) : s[i] = v})

SameBag(s, t) == \A v \in Vals : Count(s, v) = Count(t, v)

Reverse(s) == [i \in 1..Len(s) |-> s[Len(s) + 1 - i]]

One(b) == IF b THEN 1 ELSE 0

\* ------------------------------------------------------------- C1
\* C1: whenever a heap exists and neither a PeekMut guard nor a drain()
\* iterator is live, every occupied index i > 0 has element[parent(i)] >=
\* element[i]; this covers the heap built by From<Vec> and the heap after every
\* completed operation.
C1_MaxHeapInvariant ==
  (mode = "heap" /\ ~gs.live /\ iter # "drain") => IsHeap(a)

\* A pop whose sift-down moved the former last element away from the root.
C1_Witness ==
  /\ Idle
  /\ last.op = "pop"
  /\ Len(a) >= 4
  /\ a[1] # last.pre[Len(last.pre)]
  /\ a[2] # last.pre[Len(last.pre)]

\* ------------------------------------------------------------- C2
\* C2: pop() on a non-empty heap returns one of its elements, and that element
\* is >= every element the heap held when pop() was called; pop() on an empty
\* heap returns None.
C2_PopReturnsMax ==
  last.op = "pop" =>
    IF Len(last.pre) = 0 THEN last.ret = None
    ELSE /\ last.ret.tag = "Some"
         /\ \E i \in 1..Len(last.pre) : last.pre[i] = last.ret.v
         /\ \A i \in 1..Len(last.pre) : last.ret.v >= last.pre[i]

C2_Witness ==
  /\ last.op = "pop"
  /\ Len(last.pre) = Cap
  /\ \E i \in 1..Len(last.pre) : last.pre[i] < last.ret.v

\* ------------------------------------------------------------- C3
\* C3: try_push(item) on a full heap returns Err(item) and leaves the length
\* and every stored element at its position, so peek() is unchanged too.
C3_TryPushFull ==
  (last.op = "try_push" /\ Len(last.pre) = Cap) =>
    /\ last.ret = Err(last.arg[1])
    /\ a = last.pre
    /\ peek(a) = peek(last.pre)

\* The rejected item is greater than the root: it would have become the root.
C3_Witness ==
  /\ last.op = "try_push"
  /\ Len(last.pre) = Cap
  /\ last.arg[1] > last.pre[1]
  /\ last.ret.tag = "Err"

\* ------------------------------------------------------------- C4
\* C4: into_sorted_vec() returns a vector of the heap's length that holds the
\* heap's multiset of elements in non-decreasing order.
C4_IntoSortedVec ==
  last.op = "into_sorted_vec" =>
    /\ Len(a) = Len(last.pre)
    /\ SameBag(a, last.pre)
    /\ IsAscending(a)

\* A full heap with duplicates and with distinct values.
C4_Witness ==
  /\ last.op = "into_sorted_vec"
  /\ Len(last.pre) = Cap
  /\ a[1] < a[Len(a)]
  /\ \E i \in 1..(Len(a) - 1) : a[i] = a[i + 1]

\* ------------------------------------------------------------- C5
\* C5: when a drain_sorted() or into_iter_sorted() iterator is dropped after k
\* of the n elements were taken (each destroyed when taken), the destruction
\* log has exactly n entries and is the heap's former contents in descending
\* order.
C5_PartialDropOrdering ==
  last.op \in {"drain_sorted_drop", "into_iter_sorted_drop"} =>
    /\ Len(log) = Len(orig)
    /\ SameBag(log, orig)
    /\ IsDescending(log)
    /\ SubSeq(log, 1, Len(yielded)) = yielded

\* Two elements taken from a full heap, the rest destroyed by the drop.
C5_Witness ==
  /\ last.op = "drain_sorted_drop"
  /\ Len(orig) = Cap
  /\ Len(yielded) = 2
  /\ log[1] > log[Len(log)]

\* ------------------------------------------------------------- C6
\* C6: when the root of a valid non-empty heap was overwritten through a
\* PeekMut guard and the guard is dropped, the heap satisfies the max-heap
\* property again, has its old length, and holds the old multiset with the old
\* root replaced by the value written; the drop ran one sift-down from index 0.
C6_GuardRelease ==
  (last.op = "guard_drop" /\ gs.w # <<>>) =>
    /\ IsHeap(a)
    /\ Len(a) = Len(gs.orig)
    /\ \A v \in Vals :
         Count(a, v) = Count(gs.orig, v) - One(v = gs.orig[1]) + One(v = gs.w[1])
    /\ last.sifts = 1

\* The root was made smaller than a grandchild, so it sank two levels.
C6_Witness ==
  /\ last.op = "guard_drop"
  /\ gs.w # <<>>
  /\ Len(a) >= 4
  /\ gs.w[1] < gs.orig[1]
  /\ a[4] = gs.w[1]
  /\ a[4] # gs.orig[4]

\* ------------------------------------------------------------- C7
\* C7: PeekMut::pop(guard) returns the element at the root, written value
\* included, leaves the heap as BinaryHeap::pop() leaves it on the same array
\* (a valid heap again), and the sift-down from the root ran once.
C7_GuardTake ==
  last.op = "guard_pop" =>
    /\ last.ret = Some(last.pre[1])
    /\ a = pop(last.pre).a
    /\ IsHeap(a)
    /\ last.sifts = 1

\* The guard wrote a new root value before it was taken.
C7_Witness ==
  /\ last.op = "guard_pop"
  /\ gs.w # <<>>
  /\ gs.w[1] # gs.orig[1]
  /\ last.ret = Some(gs.w[1])
  /\ Len(last.pre) = Cap

\* ------------------------------------------------------------- C8
\* C8: a heap filled from empty by try_push of the elements of s, one at a
\* time, and the heap From<Vec> builds from s give the same sorted vector.
C8_BuildHeapEquivalence ==
  (mode = "heap" /\ pushed.only) =>
    into_sorted_vec(a) = into_sorted_vec(FromVec(pushed.s))

\* The two heaps hold the elements at different positions.
C8_Witness ==
  /\ mode = "heap"
  /\ pushed.only
  /\ Len(pushed.s) = Cap
  /\ a # FromVec(pushed.s)
  /\ ~IsHeap(pushed.s)

\* ------------------------------------------------------------- C9
\* C9: the sequence a fully consumed drain_sorted() yielded is the reverse of
\* what into_sorted_vec() returns for the heap the iterator started on.
C9_DrainSortedIsReverseSort ==
  (iter = "drain_sorted" /\ a = <<>>) =>
    yielded = Reverse(into_sorted_vec(orig))

C9_Witness ==
  /\ iter = "drain_sorted"
  /\ last.op = "drain_sorted_next"
  /\ last.ret = None
  /\ Len(yielded) = Cap
  /\ yielded[1] > yielded[Cap]

\* ------------------------------------------------------------- C10
\* C10 as stated: each next() of drain_sorted() / into_iter_sorted() is one
\* pop(), and the elements yielded so far are in strictly descending order.
C10_StrictlyDescending ==
  /\ last.op \in {"drain_sorted_next", "into_iter_sorted_next"} =>
       /\ last.pops = 1
       /\ a = pop(last.pre).a
       /\ last.ret = pop(last.pre).ret
  /\ iter \in {"drain_sorted", "into_iter_sorted"} => IsStrictlyDescending(yielded)

\* C10 amended: each next() of drain_sorted() / into_iter_sorted() is one
\* pop(), and the elements yielded so far are in descending order in which
\* equal elements follow one another (no element is greater than an earlier
\* one).
C10_Descending ==
  /\ last.op \in {"drain_sorted_next", "into_iter_sorted_next"} =>
       /\ last.pops = 1
       /\ a = pop(last.pre).a
       /\ last.ret = pop(last.pre).ret
  /\ iter \in {"drain_sorted", "into_iter_sorted"} => IsDescending(yielded)

\* Equal elements were yielded one after the other, then a smaller one.
C10_Witness ==
  /\ iter = "into_iter_sorted"
  /\ last.op = "into_iter_sorted_next"
  /\ Len(yielded) >= 3
  /\ yielded[1] = yielded[2]
  /\ yielded[2] > yielded[3]

\* ------------------------------------------------------------- C11
\* C11: push(item) panics exactly when the heap is full when it is called; on
\* a heap that is not full it leaves the heap as a successful try_push(item)
\* does: the item added, the heap valid, nothing else changed.
C11_PushPanicsIffFull ==
  last.op = "push" =>
    /\ (mode = "panicked") <=> (Len(last.pre) = cap)
    /\ Len(last.pre) < cap =>
         /\ try_push(last.pre, last.arg[1]).ret = Ok
         /\ a = try_push(last.pre, last.arg[1]).a
         /\ SameBag(a, Append(last.pre, last.arg[1]))
         /\ IsHeap(a)
    /\ Len(last.pre) = cap => a = last.pre

\* push on a full heap: the call panicked.
C11_Witness ==
  /\ last.op = "push"
  /\ Len(last.pre) = cap
  /\ mode = "panicked"
  /\ last.arg[1] > last.pre[1]

\* ------------------------------------------------------------- C12
\* C12: with no guard live, peek() returns None exactly when the heap is empty
\* and otherwise the element at index 0, which is what the next pop() returns
\* and is >= every element of the heap; peek() leaves the heap as it was.
C12_Peek ==
  last.op = "peek" =>
    /\ (last.ret = None) <=> (Len(last.pre) = 0)
    /\ Len(last.pre) > 0 =>
         /\ last.ret = Some(last.pre[1])
         /\ last.ret = pop(last.pre).ret
         /\ \A i \in 1..Len(last.pre) : last.ret.v >= last.pre[i]
    /\ a = last.pre

\* peek() on a full heap whose last element is smaller than the root.
C12_Witness ==
  /\ last.op = "peek"
  /\ Len(a) = cap
  /\ last.ret.tag = "Some"
  /\ a[Len(a)] < last.ret.v

\* ------------------------------------------------------------- C13
\* n successive try_push calls on s all succeed.
RECURSIVE AcceptsPushes(_, _)
AcceptsPushes(s, n) ==
  \/ n = 0
  \/ LET r == try_push(s, 1)
     IN r.ret = Ok /\ AcceptsPushes(r.a, n - 1)

\* C13: once a drain() or drain_sorted() iterator is dropped, however many
\* elements were taken from it, the heap is empty, its capacity is the one it
\* was constructed with, capacity-many pushes succeed, and the elements taken
\* followed by the elements dropped are the former contents, each once.
C13_DrainLeavesEmpty ==
  last.op \in {"drain_drop", "drain_sorted_drop"} =>
    /\ a = <<>>
    /\ IsHeap(a)
    /\ cap = Cap
    /\ AcceptsPushes(a, cap)
    /\ Len(log) = Len(orig)
    /\ SameBag(log, orig)
    /\ SubSeq(log, 1, Len(yielded)) = yielded

\* One element taken from a full heap, the other four dropped.
C13_Witness ==
  /\ last.op = "drain_sorted_drop"
  /\ Len(orig) = cap
  /\ Len(yielded) = 1
  /\ last.pre # <<>>

\* ------------------------------------------------------------- C14
\* C14: in every reachable state capacity() is the capacity the heap was
\* constructed with, and 0 <= len() <= capacity(); so no operation changes
\* capacity().
C14_CapacityFixed ==
  /\ capacity = Cap
  /\ 0 <= len(a)
  /\ len(a) <= capacity
  /\ is_full(a) <=> (len(a) = capacity)

\* A try_push filled the last free slot.
C14_Witness ==
  /\ last.op = "try_push"
  /\ last.ret = Ok
  /\ len(a) = capacity
  /\ is_full(a)

\* ------------------------------------------------------------- C15
\* C15: extend(iter) on a valid heap with room for the new elements leaves
\* what the build loop (sift-down at len/2 - 1, ..., 0) makes of the old
\* contents followed by the new elements: a valid heap holding the old
\* elements and the new ones.
C15_Extend ==
  last.op = "extend" =>
    /\ a = FromVec(last.pre \o last.arg)
    /\ IsHeap(a)
    /\ Len(a) = Len(last.pre) + Len(last.arg)
    /\ SameBag(a, last.pre \o last.arg)

\* Two elements appended to a heap of two or more; the whole is rebuilt.
C15_Witness ==
  /\ last.op = "extend"
  /\ Len(last.arg) >= 2
  /\ Len(last.pre) >= 2
  /\ ~IsHeap(last.pre \o last.arg)
  /\ a[1] = last.arg[2]

\* ------------------------------------------------------------- C16
\* C16: on a heap filled to capacity and then driven by rounds of pop() and
\* push(new value), every popped x is <= the value popped in the round before
\* or equals the value pushed last, and no pop() returns None (no unwrap and
\* no push panics).
C16_Rounds ==
  test.kind = "rounds" =>
    /\ mode # "panicked"
    /\ test.phase = "push" => (test.x <= test.cmp \/ test.x = test.newest)
    /\ test.phase \in {"pop", "push"} => Len(a) + One(test.phase = "push") = cap

\* A pop returned more than the pop before it: the value just pushed.
C16_Witness ==
  /\ test.kind = "rounds"
  /\ test.phase = "push"
  /\ test.x > test.cmp
  /\ test.x = test.newest

\* ------------------------------------------------------------- C17
\* C17: for every index i, left(i) = 2i + 1 and right(i) = 2i + 2 = left(i) + 1;
\* for i > 0, parent(i) = (i - 1) / 2; the parent of both children of i is i,
\* and the parent of the parent of each of its four grandchildren is i.
C17_ArrayEncoding ==
  (test.kind = "tree" /\ test.done) =>
    /\ test.l = 2 * test.i + 1
    /\ test.r = 2 * test.i + 2
    /\ test.r = test.l + 1
    /\ test.i > 0 => test.p = (test.i - 1) \div 2
    /\ test.pl = test.i
    /\ test.pr = test.i
    /\ test.lr = test.ll + 1
    /\ test.rr = test.rl + 1
    /\ test.ppll = test.i
    /\ test.pplr = test.i
    /\ test.pprl = test.i
    /\ test.pprr = test.i

\* An even index with a parent: (i - 1) / 2 rounds down.
C17_Witness ==
  /\ test.kind = "tree"
  /\ test.done
  /\ test.i = 8
  /\ test.p = 3
  /\ test.rr = 38

\* ------------------------------------------------------------- C18
\* C18: heapify(a, i) swaps a[i] only with a strictly greater child; the left
\* child is the first candidate and the right child replaces it only when it
\* is strictly greater than the candidate, so two equal greater children give
\* a swap with the left one; when no child is strictly greater the array is
\* unchanged.
C18_TieBreak ==
  (test.kind = "heapify" /\ test.done /\ Len(test.s) > 0) =>
    LET s == test.s
        i == test.i
        n == Len(s)
        l == 2 * i + 1
        r == 2 * i + 2
        hasL == l < n /\ At(s, l) > At(s, i)
        hasR == r < n /\ At(s, r) > At(s, i)
        t == IF hasR /\ (~hasL \/ At(s, r) > At(s, l)) THEN r ELSE l
    IN /\ (~hasL /\ ~hasR) => (test.out = s /\ test.calls = <<i>>)
       /\ (hasL \/ hasR) =>
            /\ Len(test.calls) >= 2
            /\ test.calls[2] = t
            /\ At(s, t) > At(s, i)
            /\ At(test.out, i) = At(s, t)
            /\ \A j \in {l, r} \ {t} : j < n => At(test.out, j) = At(s, j)
       /\ (hasL /\ hasR /\ At(s, l) = At(s, r)) => test.calls[2] = l

\* Two equal children, both greater than the root: the left one is taken.
C18_Witness ==
  /\ test.kind = "heapify"
  /\ test.done
  /\ test.s = <<1, 2, 2>>
  /\ test.i = 0
  /\ test.out = <<2, 1, 2>>

\* ------------------------------------------------------------- C19
\* C19: size_hint() of DrainSorted and of IntoIterSorted returns
\* (n, Some(n)) with n the number of elements remaining in the heap, and a
\* next() that returns Some leaves one element fewer.
C19_SizeHintExact ==
  /\ last.op \in {"drain_sorted_size_hint", "into_iter_sorted_size_hint"} =>
       /\ last.ret.tag = "Hint"
       /\ last.ret.v = <<Len(a), Some(Len(a))>>
  /\ (last.op \in {"drain_sorted_next", "into_iter_sorted_next"}
        /\ last.ret.tag = "Some") => Len(a) = Len(last.pre) - 1

\* ------------------------------------------------------------- C20
\* C20: heapify(a, i) with i < len(a), or on the empty slice with i = 0,
\* terminates: each nested call is on a child of the previous index, which is
\* strictly larger and inside the slice, and there are at most
\* floor(log2(len(a))) + 1 nested calls (one on the empty slice); the sift-up
\* loop of try_push makes at most floor(log2(len)) swaps.
C20_SiftBounds ==
  /\ (test.kind = "heapify" /\ test.done) =>
       LET n == Len(test.s)
           c == test.calls
       IN /\ Len(c) >= 1
          /\ c[1] = test.i
          /\ \A k \in 1..(Len(c) - 1) :
               /\ c[k + 1] \in {2 * c[k] + 1, 2 * c[k] + 2}
               /\ c[k + 1] > c[k]
               /\ c[k + 1] < n
          /\ Len(c) <= (IF n = 0 THEN 1 ELSE Log2(n) + 1)
  /\ (test.kind = "sift_up" /\ test.done) => test.swaps <= Log2(Len(test.s))

\* A sift-down from the root through every level of a full slice.
C20_Witness ==
  /\ test.kind = "heapify"
  /\ test.done
  /\ Len(test.s) = Cap
  /\ test.i = 0
  /\ Len(test.calls) = Log2(Cap) + 1

\* ------------------------------------------------------------- C21
\* C21: leaking a PeekMut guard after the root was overwritten runs no
\* sift-down and keeps the heap's contents and length; afterwards peek(), pop()
\* and push() complete as on any heap, without reporting the broken invariant:
\* peek and pop return the stored root, push panics only on a full heap.
C21_GuardLeak ==
  /\ last.op = "guard_leak" =>
       /\ a = last.pre
       /\ last.sifts = 0
       /\ ~gs.live
       /\ mode = "heap"
  /\ test.kind = "leaked" =>
       /\ last.op = "peek" =>
            /\ mode = "heap"
            /\ a = last.pre
            /\ last.ret = (IF Len(a) = 0 THEN None ELSE Some(At(a, 0)))
       /\ last.op = "pop" =>
            /\ mode = "heap"
            /\ last.ret = (IF Len(last.pre) = 0 THEN None ELSE Some(At(last.pre, 0)))
            /\ Len(a) = Len(last.pre) - One(Len(last.pre) > 0)
       /\ last.op = "push" =>
            /\ (mode = "panicked") <=> (Len(last.pre) = cap)
            /\ mode \in {"heap", "panicked"}
            /\ mode = "heap" => Len(a) = Len(last.pre) + 1

\* After a leak the heap is not a max-heap and peek returns an element
\* smaller than another one in the heap.
C21_Witness ==
  /\ test.kind = "leaked"
  /\ last.op = "peek"
  /\ last.ret.tag = "Some"
  /\ ~IsHeap(a)
  /\ \E j \in 1..Len(a) : a[j] > last.ret.v

\* ------------------------------------------------------------- C22
\* The statement about every sequence of operations holds in every reachable
\* state exactly when every single step adds to the heap's multiset what the
\* step's call accepted and takes from it what the call gave out.

\* Items the call of this step accepted: try_push returning Ok, push that did
\* not panic, extend.
Accepted ==
  IF last'.op = "try_push" /\ last'.ret.tag = "Ok" THEN last'.arg
  ELSE IF last'.op = "push" /\ mode' # "panicked" THEN last'.arg
  ELSE IF last'.op = "extend" THEN last'.arg
  ELSE <<>>

\* Elements the call of this step handed to the caller: pop, PeekMut::pop and
\* next() of a draining iterator.
Returned ==
  IF last'.op \in {"pop", "drain_next", "drain_sorted_next", "into_iter_sorted_next",
                   "guard_pop"}
       /\ last'.ret.tag = "Some"
  THEN <<last'.ret.v>>
  ELSE <<>>

\* Elements a draining iterator removed and destroyed when it was dropped.
Destroyed ==
  IF last'.op \in {"drain_drop", "drain_sorted_drop", "into_iter_sorted_drop"}
  THEN SubSeq(log', Len(log) + 1, Len(log'))
  ELSE <<>>

\* Elements clear() discarded.
Cleared == IF last'.op = "clear" THEN a ELSE <<>>

\* The value a write through a PeekMut guard stored, and the root it replaced.
Written == IF last'.op = "deref_mut" THEN last'.arg ELSE <<>>

Overwritten == IF last'.op = "deref_mut" THEN <<At(a, 0)>> ELSE <<>>

LenSteps ==
  /\ (last'.op = "try_push" /\ last'.ret.tag = "Ok") => Len(a') = Len(a) + 1
  /\ (last'.op = "pop" /\ last'.ret.tag = "Some") => Len(a') = Len(a) - 1

\* C22 as stated: in every step the heap's multiset changes by the items
\* accepted by try_push, push or extend and by the elements given out by pop,
\* PeekMut::pop or a draining iterator (returned or destroyed by it), and by
\* nothing else; a successful try_push adds one to len and a pop returning
\* Some takes one from it.
C22_OnlyPushAndPop ==
  [][/\ \A v \in Vals :
          Count(a', v) + Count(Returned, v) + Count(Destroyed, v)
            = Count(a, v) + Count(Accepted, v)
     /\ LenSteps]_vars

\* C22 (amended): as above, and in addition clear() takes every element out
\* of the heap and a write through a PeekMut guard replaces the root by the
\* value written; sift-up and sift-down only permute.
C22_Conservation ==
  [][/\ \A v \in Vals :
          Count(a', v) + Count(Returned, v) + Count(Destroyed, v)
              + Count(Cleared, v) + Count(Overwritten, v)
            = Count(a, v) + Count(Accepted, v) + Count(Written, v)
     /\ LenSteps]_vars

\* A pop that sifted the moved last element down from the root of a full heap.
C22_Witness ==
  /\ last.op = "pop"
  /\ Len(last.pre) = Cap
  /\ last.ret.tag = "Some"
  /\ a # SubSeq(last.pre, 2, Cap)
  /\ a[1] # last.pre[Cap]
  /\ SameBag(Append(a, last.ret.v), last.pre)

\* ------------------------------------------------------------- C23
Faults(reads, n) == {j \in reads : j < 0 \/ j >= n}

\* C23: no call made in a reachable state computes an index below zero or
\* accesses a slice outside its bounds: the sift-up loop evaluates parent(i)
\* only with i > 0, try_push computes len - 1 on a Vec of at least one
\* element, and heapify accesses only indices below the slice's length in pop
\* (also when the last element was removed), in the guard's drop, in the build
\* loops and in the sort loop.
C23_InRange ==
  LET pre == last.pre
  IN /\ (last.op \in {"pop", "guard_pop", "drain_sorted_next", "into_iter_sorted_next"}
           /\ Len(pre) > 0) =>
          LET r == Vec_swap_remove(pre, 0)
          IN Faults(heapify_reads(r.a, 0), Len(r.a)) = {}
     /\ (last.op \in {"try_push", "push"} /\ Len(pre) < cap) =>
          LET s == Append(pre, last.arg[1])
          IN /\ Len(s) - 1 >= 0
             /\ \A i \in sift_up_parents(s, Len(s) - 1) :
                  i > 0 /\ i < Len(s) /\ parent(i) >= 0
     /\ last.op = "guard_drop" => Faults(heapify_reads(pre, 0), Len(pre)) = {}
     /\ last.op = "from" =>
          Faults(build_reads(pre, (Len(pre) \div 2) - 1), Len(pre)) = {}
     /\ last.op = "extend" =>
          LET all == pre \o last.arg
          IN Faults(build_reads(all, (Len(all) \div 2) - 1), Len(all)) = {}
     /\ last.op = "into_sorted_vec" => sort_faults(pre, Len(pre) - 1) = {}

\* pop() removed the last element: heapify ran on the empty slice with index 0.
C23_Witness ==
  /\ last.op = "pop"
  /\ Len(last.pre) = 1
  /\ last.ret.tag = "Some"
  /\ a = <<>>
  /\ heapify_reads(a, 0) = {}

\* ------------------------------------------------------------- C24
\* C24: in into_sorted_vec, after the iteration for index i (from n - 1 down
\* to 1) the prefix a[0..i) is a max-heap, the suffix a[i..n) is in
\* non-decreasing order, every element of the suffix is >= every element of
\* the prefix, and the iteration left the earlier suffix a[i+1..n) as it was;
\* the loop runs n - 1 iterations (none for n <= 1) and ends with the sorted
\* vector.
C24_SortLoop ==
  test.kind = "sort" =>
    LET n == test.n
        i == test.i
    IN /\ Len(a) = n
       /\ test.iters = n - i
       /\ test.iters > 0 =>
            /\ i >= 1
            /\ IsHeap(SubSeq(a, 1, i))
            /\ IsAscending(SubSeq(a, i + 1, n))
            /\ \A j \in (i + 1)..n : \A k \in 1..i : a[j] >= a[k]
            /\ SubSeq(a, i + 2, n) = SubSeq(test.prev, i + 2, n)
       /\ i <= 1 =>
            /\ test.iters = (IF n <= 1 THEN 0 ELSE n - 1)
            /\ IsAscending(a)
            /\ a = into_sorted_vec(test.start)

\* The loop has run Cap - 1 times on a heap of distinct-enough elements and
\* the last iteration changed the prefix.
C24_Witness ==
  /\ test.kind = "sort"
  /\ test.n = Cap
  /\ test.iters = Cap - 1
  /\ a[1] < a[Cap]
  /\ a # test.prev

====
